---- MODULE Spec2Model ----
(***************************************************************************)
(* DCAM4SetProperty: a MEX gateway that marshals (cameraHandle,            *)
(* propertyID, value) from MATLAB arrays and calls dcamprop_setvalue.      *)
(*                                                                         *)
(* Data representation                                                     *)
(*  - A 64-bit array element is the tuple of its four 16-bit limbs in      *)
(*    memory order (little-endian, least significant limb first).          *)
(*  - A double is the record [k, w, q] standing for k*2^32 + w + q/4 with  *)
(*    w in -2^31 .. 2^31-2, q in 0..3 and k >= 0 (so for k = 0 the floor   *)
(*    of the value is w, and for k > 0 the value is at least 2^31).        *)
(*  - An mxArray is [class, data] with data the sequence of its elements.  *)
(*  - A DCAMERR result code is its value as a signed 32-bit int, so        *)
(*    0x80000001 is -2147483647.                                           *)
(* The translation unit includes stdafx.h, i.e. it is built with MSVC      *)
(* (LLP64): unsigned long is 32 bits wide, HDCAM is a 64-bit pointer.      *)
(***************************************************************************)
EXTENDS Integers, Sequences, FiniteSets, TLC

VARIABLES pc, prhs, plhs, handle, propertyID, propertyValue, error,
          out, nCalls, nPrints, sdkCalls, history

vars == <<pc, prhs, plhs, handle, propertyID, propertyValue, error,
          out, nCalls, nPrints, sdkCalls, history>>

(* ---------------------------- bounds ---------------------------------- *)

\* Number of mexFunction invocations explored in one behaviour.
MaxInvocations == 2

(* ------------------------- value helpers ------------------------------ *)

INT32_MIN == -2147483647 - 1

Num(k, w, q) == [k |-> k, w |-> w, q |-> q]
Whole(w) == Num(0, w, 0)

Array(class, data) == [class |-> class, data |-> data]

\* A local variable holds <<>> until it is assigned and <<v>> afterwards.
Uninit == <<>>
Assigned(v) == <<v>>
ValueOf(local) == local[1]

\* Outcome of an evaluation that may bring the process down.
Crash == [ok |-> FALSE]
Ok(v) == [ok |-> TRUE, v |-> v]

(* ----------------------- inputs of the model -------------------------- *)

H_NULL     == <<0, 0, 0, 0>>
H_EXAMPLE  == <<15437, 6699, 0, 0>>            \* 0x000000001A2B3C4D
H_WIDE     == <<1, 0, 1, 0>>                   \* 0x0000000100000001
H_ALLONES  == <<65535, 65535, 65535, 65535>>   \* 0xFFFFFFFFFFFFFFFF

HandleArgs ==
    { Array("uint64", <<H_NULL>>),
      Array("uint64", <<H_EXAMPLE>>),
      Array("uint64", <<H_WIDE>>),
      Array("uint64", <<H_ALLONES>>),
      Array("uint64", <<>>),
      Array("double", <<Whole(439041101)>>) }

IdArgs ==
    { Array("double", <<Whole(8)>>),
      Array("double", <<Whole(-1)>>),
      Array("double", <<Num(0, 8, 2)>>),              \*  8.5
      Array("double", <<Num(0, -9, 2)>>),             \* -8.5
      Array("double", <<Num(1, 8, 0)>>),              \*  2^32 + 8
      Array("int64",  <<Whole(2031888)>>),            \*  0x001F0110
      Array("double", <<Whole(8), Whole(9)>>),        \*  [8 9]
      Array("char",   <<Whole(97)>>) }                \*  'a'

ValueArgs ==
    { Array("double", <<Whole(1)>>),
      Array("double", <<Num(0, 0, 2)>>),              \* 0.5
      Array("double", <<>>) }

BaseHandleArg == Array("uint64", <<H_EXAMPLE>>)
BaseIdArg     == Array("double", <<Whole(8)>>)
BaseValueArg  == Array("double", <<Whole(1)>>)

\* The argument lists MATLAB may pass: one argument varies at a time around
\* DCAM4SetProperty(uint64(0x1A2B3C4D), 8, 1.0), plus a call with a null
\* handle and an unknown property ID and a call with too few arguments.
Inputs ==
    { <<a, BaseIdArg, BaseValueArg>> : a \in HandleArgs }
    \cup { <<BaseHandleArg, a, BaseValueArg>> : a \in IdArgs }
    \cup { <<BaseHandleArg, BaseIdArg, a>> : a \in ValueArgs }
    \cup { <<Array("uint64", <<H_NULL>>), Array("double", <<Whole(-1)>>),
             BaseValueArg>>,
           <<BaseHandleArg, BaseIdArg>> }

\* Result codes dcamprop_setvalue may return: DCAMERR_NONE (0),
\* DCAMERR_SUCCESS (1), 0x80000001 and DCAMERR_NOTSUPPORT (0x80000F03).
ResultCodes == {0, 1, -2147483647, -2147479805}

\* What a read of indeterminate memory may yield.
GarbageHandles == {H_NULL}
GarbageNums    == {Whole(0)}
GarbageInt32   == {INT32_MIN, 0}

(* --------------------- MEX and C library semantics -------------------- *)

\* prhs[i] (1-based here); reading past nrhs yields no valid mxArray.
Arg(args, i) == IF i <= Len(args) THEN Ok(args[i]) ELSE Crash

\* mxGetUint64s: the data of a uint64 array, NULL otherwise (and for an
\* array without data).
mxGetUint64s(pa) ==
    IF pa.class = "uint64" /\ pa.data # <<>> THEN Ok(pa.data) ELSE Crash

\* *(unsigned long*)p with a 32-bit unsigned long: the two low limbs of the
\* element at p; (HDCAM) widens the result to a 64-bit pointer.
HandleCast(elem) == <<elem[1], elem[2], 0, 0>>

\* Lines 14-15. A missing argument or a NULL data pointer is dereferenced:
\* the process faults or an arbitrary word is read.
HandleOutcomes(args) ==
    LET a == Arg(args, 1) IN
    IF ~a.ok THEN {Crash} \cup {Ok(h) : h \in GarbageHandles}
    ELSE LET mHandle == mxGetUint64s(a.v) IN
         IF ~mHandle.ok THEN {Crash} \cup {Ok(h) : h \in GarbageHandles}
         ELSE {Ok(HandleCast(mHandle.v[1]))}

\* mxGetScalar: the first element as a double; indeterminate for an array
\* without elements; a fault or garbage for a missing argument.
mxGetScalar(args, i) ==
    LET a == Arg(args, i) IN
    IF ~a.ok THEN {Crash} \cup {Ok(x) : x \in GarbageNums}
    ELSE IF a.v.data = <<>> THEN {Ok(x) : x \in GarbageNums}
    ELSE {Ok(a.v.data[1])}

\* The integral part of x (fraction discarded) fits a signed 32-bit int.
FitsInt32(x) == x.k = 0

\* Variant of Int32Cast rounding toward minus infinity instead of toward zero.
Int32Cast_floor(x) ==
    IF ~FitsInt32(x) THEN GarbageInt32 ELSE {x.w}

\* (int32)x for a double x: the fractional part is discarded; the result is
\* undefined when the integral part does not fit.
Int32Cast(x) ==
    IF ~FitsInt32(x) THEN GarbageInt32
    ELSE IF x.w >= 0 \/ x.q = 0 THEN {x.w}
    ELSE {x.w + 1}

\* failed(DCAMERR) of the DCAM-API: a result code is a failure when it is
\* negative as a signed 32-bit int.
failed(err) == err < 0

\* Variant of HexDigit for the conversion %lx (lower-case digits).
HexDigit_lower(n) ==
    CASE n = 0 -> "0" [] n = 1 -> "1" [] n = 2 -> "2" [] n = 3 -> "3"
      [] n = 4 -> "4" [] n = 5 -> "5" [] n = 6 -> "6" [] n = 7 -> "7"
      [] n = 8 -> "8" [] n = 9 -> "9" [] n = 10 -> "a" [] n = 11 -> "b"
      [] n = 12 -> "c" [] n = 13 -> "d" [] n = 14 -> "e" [] n = 15 -> "f"

HexDigit(n) ==
    CASE n = 0 -> "0" [] n = 1 -> "1" [] n = 2 -> "2" [] n = 3 -> "3"
      [] n = 4 -> "4" [] n = 5 -> "5" [] n = 6 -> "6" [] n = 7 -> "7"
      [] n = 8 -> "8" [] n = 9 -> "9" [] n = 10 -> "A" [] n = 11 -> "B"
      [] n = 12 -> "C" [] n = 13 -> "D" [] n = 14 -> "E" [] n = 15 -> "F"

\* The eight nibbles of the 32-bit word holding err, most significant first.
Nibbles(err) ==
    LET hi == (err \div 65536) % 65536
        lo == err % 65536
    IN <<hi \div 4096, (hi \div 256) % 16, (hi \div 16) % 16, hi % 16,
         lo \div 4096, (lo \div 256) % 16, (lo \div 16) % 16, lo % 16>>

RECURSIVE Significant(_)
\* Drop leading zero nibbles, keeping at least one digit.
Significant(ns) ==
    IF Len(ns) > 1 /\ ns[1] = 0 THEN Significant(Tail(ns)) ELSE ns

RECURSIVE Digits(_)
Digits(ns) == IF ns = <<>> THEN "" ELSE HexDigit(ns[1]) \o Digits(Tail(ns))

RECURSIVE Pad(_, _)
Pad(n, c) == IF n <= 0 THEN "" ELSE c \o Pad(n - 1, c)

\* printf conversion %08lX of an unsigned long: upper-case hexadecimal,
\* padded on the left with zeros to width 8.
FormatHex08(err) ==
    LET d == Significant(Nibbles(err)) IN Pad(8 - Len(d), "0") \o Digits(d)

\* The text of mexPrintf("Error = 0x%08lX\ndcamprop_setvalue() failed.\n", error).
DiagnosticText(err) ==
    "Error = 0x" \o FormatHex08(err) \o "\ndcamprop_setvalue() failed.\n"

(* ---------------------------- the program ----------------------------- *)

Init ==
    /\ pc = "idle"
    /\ prhs = <<>>
    /\ plhs = <<>>
    /\ handle = Uninit
    /\ propertyID = Uninit
    /\ propertyValue = Uninit
    /\ error = Uninit
    /\ out = ""
    /\ nCalls = 0
    /\ nPrints = 0
    /\ sdkCalls = <<>>
    /\ history = <<>>

\* MATLAB enters mexFunction with an argument list; the locals of the new
\* activation are unassigned and no left-hand side has been produced.
Invoke ==
    /\ pc \in {"idle", "done"}
    /\ Len(history) < MaxInvocations
    /\ \E args \in Inputs :
          /\ prhs' = args
          /\ history' = Append(history, args)
    /\ pc' = "start"
    /\ plhs' = <<>>
    /\ handle' = Uninit
    /\ propertyID' = Uninit
    /\ propertyValue' = Uninit
    /\ error' = Uninit
    /\ out' = ""
    /\ nCalls' = 0
    /\ nPrints' = 0
    /\ UNCHANGED sdkCalls

\* Lines 14-17: grab the inputs.
Marshal ==
    /\ pc = "start"
    /\ \E h \in HandleOutcomes(prhs), s1 \in mxGetScalar(prhs, 2),
          s2 \in mxGetScalar(prhs, 3) :
          IF h.ok /\ s1.ok /\ s2.ok
          THEN /\ handle' = Assigned(h.v)
               /\ \E id \in Int32Cast(s1.v) : propertyID' = Assigned(id)
               /\ propertyValue' = Assigned(s2.v)
               /\ pc' = "marshalled"
          ELSE /\ pc' = "crashed"
               /\ UNCHANGED <<handle, propertyID, propertyValue>>
    /\ UNCHANGED <<prhs, plhs, error, out, nCalls, nPrints, sdkCalls, history>>

\* The arguments of dcamprop_setvalue(handle, propertyID, propertyValue).
CallArgs ==
    [handle |-> ValueOf(handle), id |-> ValueOf(propertyID),
     value |-> ValueOf(propertyValue)]

\* Variant of CallSdk that skips a call repeating the previous one.
CallSdk_dedupe ==
    /\ pc = "marshalled"
    /\ IF sdkCalls # <<>> /\ sdkCalls[Len(sdkCalls)] = CallArgs
       THEN UNCHANGED <<sdkCalls, nCalls>>
       ELSE /\ sdkCalls' = Append(sdkCalls, CallArgs)
            /\ nCalls' = nCalls + 1
    /\ pc' = "in_sdk"
    /\ UNCHANGED <<prhs, plhs, handle, propertyID, propertyValue, error,
                   out, nPrints, history>>

\* Variant of CallSdk that rejects a null handle or a negative property ID
\* locally instead of passing it to the SDK.
CallSdk_validate ==
    /\ pc = "marshalled"
    /\ IF ValueOf(handle) = H_NULL \/ ValueOf(propertyID) < 0
       THEN /\ pc' = "done"
            /\ UNCHANGED <<sdkCalls, nCalls>>
       ELSE /\ sdkCalls' = Append(sdkCalls, CallArgs)
            /\ nCalls' = nCalls + 1
            /\ pc' = "in_sdk"
    /\ UNCHANGED <<prhs, plhs, handle, propertyID, propertyValue, error,
                   out, nPrints, history>>

\* Line 21, entry: the SDK receives the call.
CallSdk ==
    /\ pc = "marshalled"
    /\ sdkCalls' = Append(sdkCalls, CallArgs)
    /\ nCalls' = nCalls + 1
    /\ pc' = "in_sdk"
    /\ UNCHANGED <<prhs, plhs, handle, propertyID, propertyValue, error,
                   out, nPrints, history>>

\* Line 21, return: the SDK hands back a result code.
SdkReturn ==
    /\ pc = "in_sdk"
    /\ \E code \in ResultCodes : error' = Assigned(code)
    /\ pc' = "returned"
    /\ UNCHANGED <<prhs, plhs, handle, propertyID, propertyValue,
                   out, nCalls, nPrints, sdkCalls, history>>

\* Variant of CheckError that tests error != 0 instead of failed(ValueOf(error)).
CheckError_nonzero ==
    /\ pc = "returned"
    /\ IF ValueOf(error) # 0
       THEN /\ out' = out \o DiagnosticText(ValueOf(error))
            /\ nPrints' = nPrints + 1
       ELSE UNCHANGED <<out, nPrints>>
    /\ pc' = "done"
    /\ UNCHANGED <<prhs, plhs, handle, propertyID, propertyValue, error,
                   nCalls, sdkCalls, history>>

\* Variant of CheckError that raises a MATLAB error (mexErrMsgTxt) on failure.
CheckError_raise ==
    /\ pc = "returned"
    /\ IF failed(ValueOf(error))
       THEN /\ out' = out \o DiagnosticText(ValueOf(error))
            /\ nPrints' = nPrints + 1
            /\ pc' = "raised"
       ELSE /\ UNCHANGED <<out, nPrints>>
            /\ pc' = "done"
    /\ UNCHANGED <<prhs, plhs, handle, propertyID, propertyValue, error,
                   nCalls, sdkCalls, history>>

\* Variant of CheckError that repeats the SDK call once after a failure.
CheckError_retry ==
    /\ pc = "returned"
    /\ IF failed(ValueOf(error))
       THEN /\ out' = out \o DiagnosticText(ValueOf(error))
            /\ nPrints' = nPrints + 1
       ELSE UNCHANGED <<out, nPrints>>
    /\ pc' = IF failed(ValueOf(error)) /\ nCalls < 2 THEN "marshalled" ELSE "done"
    /\ UNCHANGED <<prhs, plhs, handle, propertyID, propertyValue, error,
                   nCalls, sdkCalls, history>>

\* Lines 22-27: report a failure, then return to MATLAB.
CheckError ==
    /\ pc = "returned"
    /\ IF failed(ValueOf(error))
       THEN /\ out' = out \o DiagnosticText(ValueOf(error))
            /\ nPrints' = nPrints + 1
       ELSE UNCHANGED <<out, nPrints>>
    /\ pc' = "done"
    /\ UNCHANGED <<prhs, plhs, handle, propertyID, propertyValue, error,
                   nCalls, sdkCalls, history>>

Next == Invoke \/ Marshal \/ CallSdk \/ SdkReturn \/ CheckError

Spec == Init /\ [][Next]_vars

\* The gateway runs to completion once entered, and the blocking SDK call
\* returns.
LiveSpec ==
    /\ Spec
    /\ WF_vars(Marshal) /\ WF_vars(CallSdk) /\ WF_vars(SdkReturn)
    /\ WF_vars(CheckError)

(* ------------------------ properties ---------------------------------- *)

Entered  == pc \in {"marshalled", "in_sdk", "returned", "done"}
LastCall == sdkCalls[Len(sdkCalls)]

NumericClasses == {"double", "int64"}

\* The argument list is a uint64 handle scalar, an integer-valued property
\* ID in the signed 32-bit range and a numeric scalar value.
ValidTriple(args) ==
    /\ Len(args) = 3
    /\ args[1].class = "uint64" /\ Len(args[1].data) = 1
    /\ args[2].class \in NumericClasses /\ Len(args[2].data) = 1
    /\ args[2].data[1].k = 0 /\ args[2].data[1].q = 0
    /\ args[3].class \in NumericClasses /\ Len(args[3].data) = 1

\* Every argument the gateway reads exists and has data.
WellFormed(args) ==
    /\ Len(args) = 3
    /\ args[1].class = "uint64" /\ args[1].data # <<>>
    /\ args[2].data # <<>>
    /\ args[3].data # <<>>

\* x lies in [-2^31, 2^31 - 1].
InSigned32Range(x) == x.k = 0

\* x rounded toward zero, for x in the signed 32-bit range.
TruncTowardZero(x) ==
    IF x.q = 0 THEN x.w ELSE IF x.w < 0 THEN x.w + 1 ELSE x.w

\* C1: when the SDK returns a success code for a valid triple, the gateway
\* has called dcamprop_setvalue exactly once with arguments value-equal to
\* the three inputs and has written no diagnostic.
C1_ExactCallOnSuccess ==
    (pc = "done" /\ ValidTriple(prhs) /\ ValueOf(error) >= 0) =>
        /\ nCalls = 1
        /\ LastCall = [handle |-> prhs[1].data[1],
                       id     |-> prhs[2].data[1].w,
                       value  |-> prhs[3].data[1]]
        /\ out = "" /\ nPrints = 0

\* C2 (as stated): every non-zero result code produces a diagnostic.
C2_DiagnosticForEveryNonZeroCode ==
    (pc = "done" /\ ValueOf(error) # 0) => (nPrints >= 1 /\ out # "")

\* C2 (amended): a diagnostic is written exactly for the result codes that
\* failed(error) selects, i.e. those negative as a signed 32-bit int;
\* non-negative codes such as DCAMERR_SUCCESS = 1 produce none.
C2_DiagnosticIffFailed ==
    pc = "done" => ((nPrints = 1 /\ out # "") <=> ValueOf(error) < 0)

C2_Witness ==
    pc = "done" /\ ValueOf(error) = -2147479805 /\ nPrints = 1 /\ out # ""

\* C3: the uint64 handle input reaches dcamprop_setvalue as the numerically
\* identical native handle, for every 64-bit value.
C3_HandleNotTruncated ==
    (Entered /\ Len(prhs) >= 1 /\ prhs[1].class = "uint64"
        /\ prhs[1].data # <<>>) =>
        /\ ValueOf(handle) = prhs[1].data[1]
        /\ nCalls = 1 => LastCall.handle = prhs[1].data[1]

\* C4: once the SDK call has returned, success and failure look the same to
\* the caller: the gateway returns normally, raises nothing, assigns no
\* output argument and changes nothing but the diagnostic text.
C4_SameOutcomeOnBothPaths ==
    [][ /\ plhs' = <<>>
        /\ pc = "returned" =>
              /\ pc' = "done"
              /\ UNCHANGED <<prhs, plhs, handle, propertyID, propertyValue,
                             error, nCalls, sdkCalls, history>>
              /\ (out' # out) <=> (ValueOf(error) < 0) ]_vars

C4_Witness ==
    pc = "done" /\ ValueOf(error) < 0 /\ out # "" /\ plhs = <<>> /\ nCalls = 1

\* C5: a scalar floating-point or wide-integer property ID within the
\* signed 32-bit range is passed to the SDK truncated toward zero.
C5_PropertyIdTruncated ==
    (Entered /\ Len(prhs) >= 2 /\ prhs[2].class \in NumericClasses
        /\ Len(prhs[2].data) = 1 /\ InSigned32Range(prhs[2].data[1])) =>
        /\ ValueOf(propertyID) = TruncTowardZero(prhs[2].data[1])
        /\ nCalls = 1 => LastCall.id = TruncTowardZero(prhs[2].data[1])

C5_Witness ==
    /\ pc = "done" /\ nCalls = 1 /\ Len(prhs) = 3
    /\ prhs[2] = Array("double", <<Num(0, -9, 2)>>)
    /\ LastCall.id = -8

\* The 8-digit upper-case hexadecimal form of the result codes.
ExpectedHex(code) ==
    CASE code = -2147483647 -> "80000001"
      [] code = -2147479805 -> "80000F03"
      [] code = 0           -> "00000000"
      [] code = 1           -> "00000001"
      [] OTHER              -> "unlisted"

\* C6: when a diagnostic is emitted for code c, the whole output of the
\* invocation is "Error = 0x", the 8 upper-case hex digits of c, a newline,
\* "dcamprop_setvalue() failed." and a newline.
C6_DiagnosticText ==
    nPrints >= 1 =>
        out = "Error = 0x" \o ExpectedHex(ValueOf(error)) \o "\n"
                \o "dcamprop_setvalue() failed." \o "\n"

C6_Witness ==
    /\ pc = "done" /\ ValueOf(error) = -2147483647
    /\ out = "Error = 0x80000001\ndcamprop_setvalue() failed.\n"

\* The SDK call carries the invocation's arguments wherever the conversion
\* is exact.
Carries(call, args) ==
    /\ (Len(args) >= 1 /\ args[1].class = "uint64" /\ args[1].data # <<>>
          /\ args[1].data[1][3] = 0 /\ args[1].data[1][4] = 0)
        => call.handle = args[1].data[1]
    /\ (Len(args) >= 2 /\ args[2].data # <<>> /\ args[2].data[1].k = 0
          /\ args[2].data[1].q = 0)
        => call.id = args[2].data[1].w
    /\ (Len(args) >= 3 /\ args[3].data # <<>>)
        => call.value = args[3].data[1]

\* C7: after N completed invocations the SDK has received exactly N calls,
\* the i-th carrying the i-th invocation's arguments, repeated arguments
\* included.
C7_OneCallPerInvocation ==
    pc \in {"idle", "done"} =>
        /\ Len(sdkCalls) = Len(history)
        /\ \A i \in 1..Len(history) : Carries(sdkCalls[i], history[i])

C7_Witness ==
    /\ pc = "done" /\ Len(history) = 2 /\ history[1] = history[2]
    /\ WellFormed(history[1])
    /\ Len(sdkCalls) = 2 /\ sdkCalls[1] = sdkCalls[2]

\* C8: no local validation: every well-formed invocation, whatever its
\* handle and property ID, reaches dcamprop_setvalue with the converted
\* arguments; a diagnostic only ever follows an SDK call.
C8_NoLocalValidation ==
    /\ WellFormed(prhs) =>
          /\ pc # "crashed"
          /\ pc = "done" =>
                /\ nCalls = 1
                /\ LastCall = CallArgs
                /\ LastCall.handle[1] = prhs[1].data[1][1]
                /\ LastCall.handle[2] = prhs[1].data[1][2]
                /\ prhs[2].data[1].k = 0 =>
                      LastCall.id = TruncTowardZero(prhs[2].data[1])
                /\ LastCall.value = prhs[3].data[1]
    /\ nPrints >= 1 => nCalls = 1

C8_Witness ==
    /\ pc = "done" /\ nCalls = 1 /\ ValueOf(error) < 0 /\ Len(prhs) = 3
    /\ prhs[1].data = <<H_NULL>> /\ prhs[2].data = <<Whole(-1)>>
    /\ LastCall.handle = H_NULL /\ LastCall.id = -1

C9_Order ==
    /\ nCalls <= 1 /\ nPrints <= 1
    /\ nPrints = 1 => (pc = "done" /\ nCalls = 1)
    /\ pc \in {"returned", "done"} => nCalls = 1

\* C9: within one invocation dcamprop_setvalue is called at most once (no
\* retry), a diagnostic is written at most once and only after the call has
\* returned, and the invocation then terminates.
C9_OrderedAndBounded ==
    /\ []C9_Order
    /\ [][ /\ pc = "returned" => (pc' = "done" /\ sdkCalls' = sdkCalls)
           /\ nPrints' > nPrints => pc = "returned"
           /\ sdkCalls' # sdkCalls => pc = "marshalled" ]_vars
    /\ (pc = "in_sdk") ~> (pc = "done")

C9_Witness ==
    pc = "done" /\ nPrints = 1 /\ nCalls = 1 /\ Len(history) = 1

\* C10: dcamprop_setvalue is called only when the first input is a uint64
\* array and the second and third inputs are numeric scalars.
C10_TypesCheckedBeforeCall ==
    nCalls >= 1 =>
        /\ Len(prhs) = 3
        /\ prhs[1].class = "uint64"
        /\ prhs[2].class \in NumericClasses /\ Len(prhs[2].data) = 1
        /\ prhs[3].class \in NumericClasses /\ Len(prhs[3].data) = 1

TypeOK ==
    /\ pc \in {"idle", "start", "marshalled", "in_sdk", "returned", "done",
               "crashed"}
    /\ nCalls \in 0..MaxInvocations
    /\ Len(history) <= MaxInvocations
====
